---- MODULE Spec2Model ----
(***************************************************************************)
(* massconf: one DeviceManager.run of src/main.py as a state machine     *)
(* (Spec), execute_logic on its own (SpecClassify), and main with its      *)
(* thread pool, each run one step (SpecFleet, SpecFleetFair).              *)
(*                                                                         *)
(* Text (commands, device responses, the accumulated output) is a         *)
(* sequence of one-character strings, so that str.startswith, str.strip,  *)
(* the "in" substring test and "+=" are computed as Python computes them.  *)
(* Every call into the session library is one step whose outcome (a       *)
(* result or a raised exception class) is chosen by the environment.      *)
(***************************************************************************)
EXTENDS Integers, Sequences, FiniteSets, TLC

(* ---------------------------------------------------------------- bounds *)
\* longest DRIVERS list explored
MaxDrivers == 2
\* longest primary command list (commands.txt) explored
MaxCmds == 2
\* most devices (hosts.txt) given to main
MaxDevices == 3
\* largest THREADS setting explored
MaxThreads == 2

(* ------------------------------------------------------------------ text *)
cmdShowRun == <<"s","h","o","w"," ","r","u","n">>
cmdCopy == <<"c","o","p","y"," ","r","u","n"," ","s","t","a","r","t">>
cmdNoUser == <<"n","o"," ","u","s","e","r","n","a","m","e"," ","t","e","s","t">>
cmdIface == <<"i","n","t","e","r","f","a","c","e"," ","g","i","0","/","1">>
cmdBlank == <<" ">>
cmdWrMem == <<"w","r","i","t","e"," ","m","e","m","o","r","y">>
cmdNoUs == <<"n","o"," ","u","s","e","r">>
cmdLeadShow == <<" ","s","h","o","w"," ","r","u","n">>
pShow == <<"s","h","o","w">>
pWr == <<"w","r">>
pPing == <<"p","i","n","g">>
pTraceroute == <<"t","r","a","c","e","r","o","u","t","e">>
pClear == <<"c","l","e","a","r">>
sNoUsername == <<"n","o"," ","u","s","e","r","n","a","m","e">>
sCopy == <<"c","o","p","y">>
sUsernameTest == <<"u","s","e","r","n","a","m","e"," ","t","e","s","t">>
resOk == <<"o","k">>
NL == <<"\n">>

\* settings default: PRIV_CMDS = ("show", "wr", "ping", "traceroute", "clear")
PRIV_CMDS == <<pShow, pWr, pPing, pTraceroute, pClear>>

\* "\n--- ANALYZER FIX ---\n"
FIX_MARKER == <<"\n","-","-","-"," ","A","N","A","L","Y","Z","E","R"," ","F","I","X"," ","-","-","-","\n">>

Whitespace == {" ", "\n", "\t"}

\* str.startswith(prefix)
StartsWith(s, p) == Len(p) <= Len(s) /\ SubSeq(s, 1, Len(p)) = p

\* str.startswith(tuple_of_prefixes)
StartsWithAny(s, ps) == \E n \in 1..Len(ps) : StartsWith(s, ps[n])

\* needle in haystack
Contains(hay, needle) ==
    \E a \in 1..(Len(hay) - Len(needle) + 1) :
        SubSeq(hay, a, a + Len(needle) - 1) = needle

\* str.strip()
RECURSIVE LStrip(_)
LStrip(s) == IF s # <<>> /\ Head(s) \in Whitespace THEN LStrip(Tail(s)) ELSE s
RECURSIVE RStrip(_)
RStrip(s) ==
    IF s # <<>> /\ s[Len(s)] \in Whitespace
    THEN RStrip(SubSeq(s, 1, Len(s) - 1)) ELSE s
Strip(s) == RStrip(LStrip(s))

(* -------------------------------------------------------- execute_logic *)
\* the read-only test written as membership (cmd in PRIV_CMDS) instead of
\* startswith
ClassifyMembership(cmd) ==
    IF StartsWith(cmd, sNoUsername) THEN "ConfirmInteractive"
    ELSE IF StartsWith(cmd, sCopy) THEN "PromptInteractive"
    ELSE IF \E n \in 1..Len(PRIV_CMDS) : cmd = PRIV_CMDS[n]
         THEN "PrivilegedReadOnly"
    ELSE "Configuration"

\* the if/elif chain of execute_logic: which branch a command takes
Classify(cmd) ==
    IF StartsWith(cmd, sNoUsername) THEN "ConfirmInteractive"
    ELSE IF StartsWith(cmd, sCopy) THEN "PromptInteractive"
    ELSE IF StartsWithAny(cmd, PRIV_CMDS) THEN "PrivilegedReadOnly"
    ELSE "Configuration"

\* one completed loop iteration: the text appended to full_result and the
\* new value of config_changed, for a command whose call returned res
ExecOne(cmd, res, acc, chg) ==
    CASE Classify(cmd) = "ConfirmInteractive" ->
            [full_result |-> acc \o res \o NL, config_changed |-> TRUE]
      [] Classify(cmd) = "PromptInteractive" ->
            [full_result |-> acc \o res \o NL, config_changed |-> chg]
      [] Classify(cmd) = "PrivilegedReadOnly" ->
            [full_result |-> acc \o res \o NL, config_changed |-> chg]
      [] OTHER ->
            [full_result |-> acc \o cmd \o NL \o res \o NL,
             config_changed |-> TRUE]

\* the strategies whose branch sets config_changed
Changing == {"ConfirmInteractive", "Configuration"}

(* ------------------------------------------------- exceptions and except *)
\* what a call into scrapli, or the analyzer plugin, can raise, by the except
\* clause that catches it: ScrapliAuthenticationFailed, ScrapliTimeout, any
\* other ScrapliException, any other Exception
ExcClass == {"Auth", "Timeout", "Scrapli", "General"}

\* Except with the clause for ScrapliException placed first: it then also
\* catches its subclasses ScrapliAuthenticationFailed and ScrapliTimeout
ExceptScrapliFirst(e, n) ==
    CASE e \in {"Auth", "Timeout", "Scrapli"} ->
            [last_error |-> [kind |-> "Scrapli Error", detail |-> n],
             flow |-> "continue"]
      [] OTHER ->
            [last_error |-> [kind |-> "General Error", detail |-> n],
             flow |-> "break"]

\* Except with break in place of continue in the ScrapliTimeout clause
ExceptTimeoutBreaks(e, n) ==
    CASE e = "Auth" ->
            [last_error |-> [kind |-> "Authentication Failed", detail |-> 0],
             flow |-> "break"]
      [] e = "Timeout" ->
            [last_error |-> [kind |-> "Timeout (Check connectivity or Driver/Prompt)",
                             detail |-> 0],
             flow |-> "break"]
      [] e = "Scrapli" ->
            [last_error |-> [kind |-> "Scrapli Error", detail |-> n],
             flow |-> "continue"]
      [] OTHER ->
            [last_error |-> [kind |-> "General Error", detail |-> n],
             flow |-> "break"]

\* Except with continue in place of break in the last clause
ExceptGeneralContinues(e, n) ==
    CASE e = "Auth" ->
            [last_error |-> [kind |-> "Authentication Failed", detail |-> 0],
             flow |-> "break"]
      [] e = "Timeout" ->
            [last_error |-> [kind |-> "Timeout (Check connectivity or Driver/Prompt)",
                             detail |-> 0],
             flow |-> "continue"]
      [] e = "Scrapli" ->
            [last_error |-> [kind |-> "Scrapli Error", detail |-> n],
             flow |-> "continue"]
      [] OTHER ->
            [last_error |-> [kind |-> "General Error", detail |-> n],
             flow |-> "continue"]

\* the except clauses of run, tried in source order, for an exception of
\* class e leaving the with statement of driver attempt n: the value given to
\* last_error and whether the loop breaks or continues.  detail stands for
\* type(e).__name__ and str(e); it names the attempt that raised.
Except(e, n) ==
    CASE e = "Auth" ->
            [last_error |-> [kind |-> "Authentication Failed", detail |-> 0],
             flow |-> "break"]
      [] e = "Timeout" ->
            [last_error |-> [kind |-> "Timeout (Check connectivity or Driver/Prompt)",
                             detail |-> 0],
             flow |-> "continue"]
      [] e = "Scrapli" ->
            [last_error |-> [kind |-> "Scrapli Error", detail |-> n],
             flow |-> "continue"]
      [] OTHER ->
            [last_error |-> [kind |-> "General Error", detail |-> n],
             flow |-> "break"]

(* ---------------------------------------------------------------- drivers *)
DriverNames == {"IOSXEDriver", "NXOSDriver", "ASADriver"}

\* the calls _prepare_session makes, in order
PrepCalls(driver_name) ==
    IF driver_name = "ASADriver"
    THEN <<"terminal pager 0">>
    ELSE <<"terminal length 0", "terminal width 511", "acquire_priv privilege_exec">>

\* the command _save_config sends
SaveCmd(driver_name) ==
    IF driver_name = "NXOSDriver" THEN "copy running-config startup-config"
    ELSE "write memory"

(* --------------------------------------------------------------- analyzer *)
\* values of ANALYZER_MODULE: none configured, the shipped plugin, some other
\* installed plugin, and a name load_analyzer cannot resolve
AnalyzerNames == {"", "analyze_username_test", "custom", "missing"}
Installed == {"analyze_username_test", "custom"}

\* load_analyzer: the module's analyze, or on any failure the fallback
\* lambda conn, host, output: []
load_analyzer(module_name) ==
    IF module_name \in Installed THEN module_name ELSE "lambda3"

\* DeviceManager.__init__: self.analyzer
BindAnalyzer(name) ==
    IF name # "" THEN load_analyzer(name) ELSE "lambda2"

\* analyzer_modules/analyze_username_test.py: analyze(host, output)
analyze(output) ==
    IF Contains(output, sUsernameTest) THEN <<cmdNoUser>> ELSE <<>>

\* what an arbitrary installed plugin may return
CustomResults == {<<>>, <<cmdCopy>>, <<cmdBlank, cmdIface>>}
\* what a plugin may raise: it is given only the host and the output text,
\* no session, so an exception that is no scrapli exception
AnalyzerExc == {"General"}

\* self.analyzer(self.host, output): the possible outcomes of the call with
\* two positional arguments, each a raised class ("none": it returned) and
\* the returned list
CallAnalyzer(binding, output) ==
    CASE binding = "lambda2" -> {[raised |-> "none", cmds |-> <<>>]}
      [] binding = "lambda3" -> {[raised |-> "General", cmds |-> <<>>]}
      [] binding = "analyze_username_test" ->
            {[raised |-> "none", cmds |-> analyze(output)]}
      [] OTHER ->
            {[raised |-> "none", cmds |-> c] : c \in CustomResults}
            \cup {[raised |-> e, cmds |-> <<>>] : e \in AnalyzerExc}

(* ------------------------------------------------------------------ state *)
VARIABLES
    DRIVERS,        \* settings: ordered driver classes
    commands,       \* self.commands
    analyze_name,   \* self.analyze (ANALYZER_MODULE)
    analyzer,       \* self.analyzer
    pc,             \* position in run
    i,              \* index in DRIVERS of the for loop
    last_error,
    output, config_changed,         \* locals of the with body
    k,                              \* loop index of execute_logic
    full_result, changed,           \* locals of the running execute_logic
    fix_commands,
    pending,        \* exception propagating out of the with body, or "none"
    tried,          \* driver indexes whose constructor/open was attempted
    attemptExc,     \* per attempt: the class that reached the except clauses
    openSess,       \* driver indexes whose session is open
    sess,           \* calls made on the current session, in order
    sentCmds,       \* the primary commands (by position) sent so far
    resent,         \* a primary command was sent that had been sent before
    applied,        \* a Configuration/ConfirmInteractive command completed
    nSave,          \* _save_config invocations
    primaryDone,    \* some attempt's primary batch returned
    analyzerErr,    \* a call of self.analyzer raised
    successLog,     \* SUCCESS log lines: the driver index of each
    nFailed,        \* FAILED log lines
    failedHosts,    \* lines written to failed.txt
    \* main: the pool and the as_completed loop
    THREADS,        \* settings: max_workers of the pool
    devices,        \* get_devices(): the hosts, by their position
    mainPc,         \* where main is: "submit", "as_completed", "raised", "done"
    futures,        \* state of each submitted future, in submission order
    runs,           \* how many times each device's run was started
    outcome,        \* how each device's run ended ("none": not yet)
    yielded,        \* how many times as_completed gave each future to main
    failedTxt,      \* lines of failed.txt, per host
    critical        \* "Unhandled exception" log lines, per host

fleet == <<THREADS, devices, mainPc, futures, runs, outcome, yielded, failedTxt,
           critical>>
config == <<DRIVERS, commands, analyze_name, analyzer>>
locals == <<output, config_changed, k, full_result, changed, fix_commands>>
report == <<successLog, nFailed, failedHosts>>
hist == <<sentCmds, resent, applied, nSave, primaryDone, analyzerErr>>
nSuccess == Len(successLog)
run == <<config, pc, i, last_error, locals, pending, tried, attemptExc,
         openSess, sess, hist, report>>
vars == <<run, fleet>>

\* no pool: one DeviceManager.run, or execute_logic, looked at on its own
NoFleet ==
    /\ THREADS = 1 /\ devices = <<>> /\ mainPc = "none"
    /\ futures = <<>> /\ runs = <<>> /\ outcome = <<>> /\ yielded = <<>>
    /\ failedTxt = <<>> /\ critical = <<>>

\* commands.txt after get_commands: stripped, non-empty lines
CmdPool == {cmdShowRun, cmdCopy, cmdNoUser, cmdIface}
\* what the device may answer to a command
ResPool == {resOk, sUsernameTest}

SeqsUpTo(S, n) == UNION {[1..m -> S] : m \in 0..n}
Injective(f) == \A a, b \in DOMAIN f : f[a] = f[b] => a = b
\* the driver classes in one fixed order; a DRIVERS list explored is a
\* sub-list of it (a driver's name only selects the prepare and save text)
Rank(n) == CASE n = "IOSXEDriver" -> 1 [] n = "NXOSDriver" -> 2 [] OTHER -> 3
Ordered(f) == \A a, b \in DOMAIN f : a < b => Rank(f[a]) < Rank(f[b])

\* the settings explored: up to MaxDrivers drivers (none is possible: an
\* empty DRIVERS in settings.py)
DriverLists == {d \in SeqsUpTo(DriverNames, MaxDrivers) : Ordered(d)}
\* the command files explored: up to MaxCmds distinct commands, at least one
\* (main returns before any run when commands.txt yields none)
CommandLists == {c \in SeqsUpTo(CmdPool, MaxCmds) : Injective(c)} \ {<<>>}

\* one step on the session: where in run, which item, what was done (for a
\* command its strategy, else the text sent), and whether it returned (ok)
\* or raised
Ev(phase, idx, call, ok) == [phase |-> phase, idx |-> idx, call |-> call, ok |-> ok]

Init ==
    /\ DRIVERS \in DriverLists
    /\ commands \in CommandLists
    /\ analyze_name \in AnalyzerNames
    /\ analyzer = BindAnalyzer(analyze_name)
    /\ pc = "for"
    /\ i = 1
    /\ last_error = [kind |-> "Unknown Error", detail |-> 0]
    /\ output = <<>> /\ config_changed = FALSE
    /\ k = 1 /\ full_result = <<>> /\ changed = FALSE
    /\ fix_commands = <<>>
    /\ pending = "none"
    /\ tried = <<>> /\ attemptExc = <<>>
    /\ openSess = {} /\ sess = <<>>
    /\ sentCmds = {} /\ resent = FALSE
    /\ applied = FALSE /\ primaryDone = FALSE /\ analyzerErr = FALSE
    /\ nSave = 0 /\ successLog = <<>> /\ nFailed = 0 /\ failedHosts = 0
    /\ NoFleet

\* an exception of class e leaves the with statement of attempt i and is
\* handled by the except clauses: break leaves the loop, continue goes on
Handle(e) ==
    /\ last_error' = Except(e, i).last_error
    /\ attemptExc' = Append(attemptExc, e)
    /\ i' = IF Except(e, i).flow = "continue" THEN i + 1 ELSE i
    /\ pc' = IF Except(e, i).flow = "continue" THEN "for" ELSE "report"

\* the with body without its call of _prepare_session: the primary batch
\* starts on the session as it was opened
ConnectSkipsPrepare ==
    /\ pc = "for" /\ i <= Len(DRIVERS)
    /\ tried' = Append(tried, i)
    /\ pending' = "none"
    /\ output' = <<>> /\ config_changed' = FALSE
    /\ k' = 1 /\ full_result' = <<>> /\ changed' = FALSE
    /\ fix_commands' = <<>>
    /\ \E r \in {"ok"} \cup ExcClass :
          IF r = "ok"
          THEN /\ openSess' = openSess \cup {i}
               /\ sess' = <<Ev("open", i, DRIVERS[i], TRUE)>>
               /\ pc' = "primary"
               /\ UNCHANGED <<i, last_error, attemptExc>>
          ELSE /\ Handle(r)
               /\ UNCHANGED <<openSess, sess>>
    /\ UNCHANGED <<fleet, config, hist, report>>

\* with driver_class(**self.device_dict) as conn: the constructor and
\* __enter__ (open). A failure leaves no session and __exit__ is not called.
Connect ==
    /\ pc = "for" /\ i <= Len(DRIVERS)
    /\ tried' = Append(tried, i)
    /\ pending' = "none"
    /\ output' = <<>> /\ config_changed' = FALSE
    /\ k' = 1 /\ full_result' = <<>> /\ changed' = FALSE
    /\ fix_commands' = <<>>
    /\ \E r \in {"ok"} \cup ExcClass :
          IF r = "ok"
          THEN /\ openSess' = openSess \cup {i}
               /\ sess' = <<Ev("open", i, DRIVERS[i], TRUE)>>
               /\ pc' = "prepare"
               /\ UNCHANGED <<i, last_error, attemptExc>>
          ELSE /\ Handle(r)
               /\ UNCHANGED <<openSess, sess>>
    /\ UNCHANGED <<fleet, config, hist, report>>

\* the except clause of _prepare_session narrowed to the session library's
\* own errors (except ScrapliException)
PrepCatchesScrapliOnly(e) == e \in {"Auth", "Timeout", "Scrapli"}

\* except Exception in _prepare_session: every class is caught
PrepCatches(e) == e \in ExcClass

\* _prepare_session: the calls are made in order until one raises (n of them
\* return) an exception of class e; what the except clause catches is logged
\* at debug level and the function returns. The session trace keeps the
\* first call, which names the branch taken, and whether the whole
\* preparation completed.
PrepareSession ==
    /\ pc = "prepare"
    /\ \E n \in 0..Len(PrepCalls(DRIVERS[i])), e \in ExcClass :
          LET completed == n = Len(PrepCalls(DRIVERS[i])) IN
          /\ sess' = Append(sess, Ev("prepare", 1, PrepCalls(DRIVERS[i])[1],
                                     completed))
          /\ IF completed \/ PrepCatches(e)
             THEN pc' = "primary" /\ UNCHANGED pending
             ELSE pc' = "exit" /\ pending' = e
    /\ UNCHANGED <<fleet, config, i, last_error, locals, tried, attemptExc,
                   openSess, hist, report>>

\* one iteration of the for loop of execute_logic over cmds at index k:
\* a blank command is skipped; otherwise the branch's call is made and
\* either returns some text or raises. A ConfirmInteractive command is
\* preceded by acquire_priv and get_prompt, which may raise before the
\* command itself is sent (sent = FALSE).
ExecIteration(cmds, phase) ==
    LET cmd == cmds[k] IN
    IF Strip(cmd) = <<>>
    THEN /\ k' = k + 1
         /\ UNCHANGED <<full_result, changed, pending, pc, sess, applied>>
    ELSE \/ \E res \in ResPool :
              /\ full_result' = ExecOne(cmd, res, full_result, changed).full_result
              /\ changed' = ExecOne(cmd, res, full_result, changed).config_changed
              /\ sess' = Append(sess, Ev(phase, k, Classify(cmd), TRUE))
              /\ applied' = (applied \/ Classify(cmd) \in Changing)
              /\ k' = k + 1
              /\ UNCHANGED <<pending, pc>>
         \/ \E e \in ExcClass, sent \in BOOLEAN :
              /\ sent \/ Classify(cmd) = "ConfirmInteractive"
              /\ pending' = e
              /\ pc' = "exit"
              /\ sess' = Append(sess, Ev(phase, k,
                            IF sent THEN Classify(cmd) ELSE "acquire_priv",
                            FALSE))
              /\ UNCHANGED <<full_result, changed, k, applied>>

\* execute_logic(conn, self.commands), one command per step
ExecPrimary ==
    /\ pc = "primary" /\ k <= Len(commands)
    /\ ExecIteration(commands, "primary")
    /\ LET wasSent == sess' # sess /\ sess'[Len(sess')].call # "acquire_priv" IN
         /\ sentCmds' = IF wasSent THEN sentCmds \cup {k} ELSE sentCmds
         /\ resent' = (resent \/ (wasSent /\ k \in sentCmds))
    /\ UNCHANGED <<fleet, config, i, last_error, output, config_changed, fix_commands,
                   tried, attemptExc, openSess, nSave, primaryDone, analyzerErr,
                   report>>

\* execute_logic returns (output, config_changed); then, if an analyzer is
\* configured, self.analyzer(self.host, output) is called
AnalyzeCall ==
    /\ pc = "primary" /\ k > Len(commands)
    /\ output' = full_result
    /\ config_changed' = changed
    /\ primaryDone' = TRUE
    /\ IF analyze_name # ""
       THEN \E o \in CallAnalyzer(analyzer, full_result) :
              /\ analyzerErr' = (analyzerErr \/ o.raised # "none")
              /\ IF o.raised # "none"
                 THEN /\ pending' = o.raised
                      /\ pc' = "exit"
                      /\ UNCHANGED <<fix_commands, k, full_result, changed>>
                 ELSE IF o.cmds # <<>>
                 THEN /\ fix_commands' = o.cmds
                      /\ k' = 1 /\ full_result' = <<>> /\ changed' = FALSE
                      /\ pc' = "fix"
                      /\ UNCHANGED pending
                 ELSE /\ pc' = "success"
                      /\ UNCHANGED <<fix_commands, k, full_result, changed, pending>>
       ELSE /\ pc' = "success"
            /\ UNCHANGED <<fix_commands, k, full_result, changed, pending,
                           analyzerErr>>
    /\ UNCHANGED <<fleet, config, i, last_error, tried, attemptExc, openSess, sess,
                   sentCmds, resent, applied, nSave, report>>

\* execute_logic(conn, fix_commands), one command per step
ExecFix ==
    /\ pc = "fix" /\ k <= Len(fix_commands)
    /\ ExecIteration(fix_commands, "fix")
    /\ UNCHANGED <<fleet, config, i, last_error, output, config_changed, fix_commands,
                   tried, attemptExc, openSess, sentCmds, resent, nSave,
                   primaryDone, analyzerErr, report>>

\* the fix output assigned to output instead of appended to it
FixDoneOverwrites ==
    /\ pc = "fix" /\ k > Len(fix_commands)
    /\ output' = FIX_MARKER \o full_result
    /\ config_changed' = (config_changed \/ changed)
    /\ pc' = "success"
    /\ UNCHANGED <<fleet, config, i, last_error, k, full_result, changed, fix_commands,
                   pending, tried, attemptExc, openSess, sess, hist, report>>

\* the fix batch returned: output += marker + fix_output and
\* config_changed = config_changed or fix_changed
FixDone ==
    /\ pc = "fix" /\ k > Len(fix_commands)
    /\ output' = output \o FIX_MARKER \o full_result
    /\ config_changed' = (config_changed \/ changed)
    /\ pc' = "success"
    /\ UNCHANGED <<fleet, config, i, last_error, k, full_result, changed, fix_commands,
                   pending, tried, attemptExc, openSess, sess, hist, report>>

\* the save made unconditional
NeedsSaveAlways(flag) == TRUE

\* if config_changed: self._save_config(conn, driver_class)
NeedsSave(flag) == flag

\* logger.info("SUCCESS: ..."), then the test of config_changed
LogSuccess ==
    /\ pc = "success"
    /\ successLog' = Append(successLog, i)
    /\ pc' = IF NeedsSave(config_changed) THEN "save" ELSE "exit"
    /\ UNCHANGED <<fleet, config, i, last_error, locals, pending, tried, attemptExc,
                   openSess, sess, hist, nFailed, failedHosts>>

\* _save_config without its try/except: a failure of the save command
\* leaves the with body as an exception
SaveConfigPropagates ==
    /\ pc = "save"
    /\ nSave' = nSave + 1
    /\ \E r \in {"ok"} \cup ExcClass :
          /\ sess' = Append(sess, Ev("save", 1, SaveCmd(DRIVERS[i]), r = "ok"))
          /\ pending' = IF r = "ok" THEN pending ELSE r
    /\ pc' = "exit"
    /\ UNCHANGED <<fleet, config, i, last_error, locals, tried, attemptExc,
                   openSess, sentCmds, resent, applied, primaryDone, analyzerErr,
                   report>>

\* _save_config: one command by driver name; a failure is caught and logged
SaveConfig ==
    /\ pc = "save"
    /\ nSave' = nSave + 1
    /\ \E ok \in BOOLEAN :
          sess' = Append(sess, Ev("save", 1, SaveCmd(DRIVERS[i]), ok))
    /\ pc' = "exit"
    /\ UNCHANGED <<fleet, config, i, last_error, locals, pending, tried, attemptExc,
                   openSess, sentCmds, resent, applied, primaryDone, analyzerErr,
                   report>>

\* the session closed by an explicit conn.close() at the end of the body
\* instead of by the with statement: an exception skips it
ReleasedOnReturnOnly(open, n, exc) == IF exc = "none" THEN open \ {n} ELSE open

\* the sessions still open after __exit__ ran for session n, whatever
\* exception (or none) is leaving the with body
Released(open, n, exc) == open \ {n}

\* leaving the with statement (by return or by an exception): __exit__ closes
\* the session. An exception raised by close replaces the one in flight.
\* With none in flight run returns; otherwise the except clauses handle it.
\* The locals of the with body are dead from here on (the next attempt
\* assigns them before reading them), so they are reset; sess is the trace
\* of the current session and ends with it.
CloseSession ==
    /\ pc = "exit"
    /\ openSess' = Released(openSess, i, pending)
    /\ \E r \in {"ok"} \cup ExcClass :
          LET e == IF r # "ok" THEN r ELSE pending IN
          IF e = "none"
          THEN /\ pc' = "done"
               /\ attemptExc' = Append(attemptExc, "none")
               /\ UNCHANGED <<i, last_error>>
          ELSE Handle(e)
    /\ pending' = "none"
    /\ sess' = <<>>
    /\ output' = <<>> /\ config_changed' = FALSE
    /\ k' = 1 /\ full_result' = <<>> /\ changed' = FALSE
    /\ fix_commands' = <<>>
    /\ UNCHANGED <<fleet, config, tried, hist, report>>

\* after the loop (break, or DRIVERS exhausted): logger.error("FAILED: ...")
\* and failed_logger.error(self.host)
ReportFailed ==
    /\ pc = "report" \/ (pc = "for" /\ i > Len(DRIVERS))
    /\ nFailed' = nFailed + 1
    /\ failedHosts' = failedHosts + 1
    /\ pc' = "done"
    /\ UNCHANGED <<fleet, config, i, last_error, locals, pending, tried, attemptExc,
                   openSess, sess, hist, successLog>>

Next ==
    \/ Connect
    \/ PrepareSession
    \/ ExecPrimary
    \/ AnalyzeCall
    \/ ExecFix
    \/ FixDone
    \/ LogSuccess
    \/ SaveConfig
    \/ CloseSession
    \/ ReportFailed

Spec == Init /\ [][Next]_vars

(* ------------------------------------------- execute_logic on its own *)
\* command texts given to execute_logic: the four strategies, the bare
\* prefixes, texts one character short of a prefix or shifted by a leading
\* blank (a fix command is not stripped), and a blank line
ClassifyPool ==
    {cmdNoUser, cmdCopy, cmdShowRun, cmdIface, cmdBlank, pWr, cmdWrMem, pPing,
     pTraceroute, pClear, sNoUsername, sUsernameTest, cmdNoUs, cmdLeadShow}

\* execute_logic called with any list of these texts on a session that
\* answers every command
InitClassify ==
    /\ DRIVERS = <<"IOSXEDriver">>
    /\ commands \in SeqsUpTo(ClassifyPool, MaxCmds) \ {<<>>}
    /\ analyze_name = "" /\ analyzer = BindAnalyzer("")
    /\ pc = "execute_logic"
    /\ i = 1
    /\ last_error = [kind |-> "Unknown Error", detail |-> 0]
    /\ output = <<>> /\ config_changed = FALSE
    /\ k = 1 /\ full_result = <<>> /\ changed = FALSE
    /\ fix_commands = <<>>
    /\ pending = "none"
    /\ tried = <<>> /\ attemptExc = <<>>
    /\ openSess = {} /\ sess = <<>>
    /\ sentCmds = {} /\ resent = FALSE
    /\ applied = FALSE /\ primaryDone = FALSE /\ analyzerErr = FALSE
    /\ nSave = 0 /\ successLog = <<>> /\ nFailed = 0 /\ failedHosts = 0
    /\ NoFleet

\* one iteration of the for loop of execute_logic, the call returning
ExecuteLogicStep ==
    /\ pc = "execute_logic" /\ k <= Len(commands)
    /\ IF Strip(commands[k]) = <<>>
       THEN UNCHANGED <<full_result, changed, sess>>
       ELSE \E res \in ResPool :
              /\ full_result' =
                    ExecOne(commands[k], res, full_result, changed).full_result
              /\ changed' =
                    ExecOne(commands[k], res, full_result, changed).config_changed
              /\ sess' = Append(sess, Ev("primary", k, Classify(commands[k]), TRUE))
    /\ k' = k + 1
    /\ UNCHANGED <<fleet, config, pc, i, last_error, output, config_changed,
                   fix_commands, pending, tried, attemptExc, openSess, hist,
                   report>>

\* return full_result, config_changed
ExecuteLogicReturn ==
    /\ pc = "execute_logic" /\ k > Len(commands)
    /\ output' = full_result
    /\ config_changed' = changed
    /\ pc' = "returned"
    /\ UNCHANGED <<fleet, config, i, last_error, k, full_result, changed,
                   fix_commands, pending, tried, attemptExc, openSess, sess,
                   hist, report>>

NextClassify ==
    \/ ExecuteLogicStep
    \/ ExecuteLogicReturn

SpecClassify == InitClassify /\ [][NextClassify]_vars

(* ------------------------------------------------------------------ main *)
\* how one DeviceManager.run can end, as main and the report files see it:
\* it returned after SUCCESS; it returned after FAILED and a failed.txt
\* line; it returned after SUCCESS and then FAILED with its line (close
\* raised after the SUCCESS log); or an exception left run (nothing inside
\* the try of run can, so before any failed.txt line was written)
RunResults == {"Success", "Failed", "SuccessThenFailed", "Escaped"}

\* the lines run itself writes to failed.txt
FailedLines(r) == IF r \in {"Failed", "SuccessThenFailed"} THEN 1 ELSE 0

\* no run: main and its pool looked at on their own, each run one step
NoRun ==
    /\ DRIVERS = <<>> /\ commands = <<>>
    /\ analyze_name = "" /\ analyzer = BindAnalyzer("")
    /\ pc = "none" /\ i = 1
    /\ last_error = [kind |-> "Unknown Error", detail |-> 0]
    /\ output = <<>> /\ config_changed = FALSE
    /\ k = 1 /\ full_result = <<>> /\ changed = FALSE
    /\ fix_commands = <<>>
    /\ pending = "none"
    /\ tried = <<>> /\ attemptExc = <<>>
    /\ openSess = {} /\ sess = <<>>
    /\ sentCmds = {} /\ resent = FALSE
    /\ applied = FALSE /\ primaryDone = FALSE /\ analyzerErr = FALSE
    /\ nSave = 0 /\ successLog = <<>> /\ nFailed = 0 /\ failedHosts = 0

\* main after get_devices and get_commands returned something: at least one
\* device (main returns at once otherwise), the pool created, nothing
\* submitted
InitFleet ==
    /\ NoRun
    /\ THREADS \in 1..MaxThreads
    /\ devices \in {[d \in 1..n |-> d] : n \in 1..MaxDevices}
    /\ mainPc = "submit"
    /\ futures = <<>>
    /\ runs = [d \in DOMAIN devices |-> 0]
    /\ outcome = [d \in DOMAIN devices |-> "none"]
    /\ yielded = [d \in DOMAIN devices |-> 0]
    /\ failedTxt = [d \in DOMAIN devices |-> 0]
    /\ critical = [d \in DOMAIN devices |-> 0]

Running == {d \in DOMAIN futures : futures[d] = "RUNNING"}

\* executor.submit(DeviceManager(dev, commands).run) for the next device of
\* the comprehension; after the last one main enters the as_completed loop
Submit ==
    /\ mainPc = "submit"
    /\ futures' = Append(futures, "PENDING")
    /\ mainPc' = IF Len(futures') = Len(devices) THEN "as_completed" ELSE "submit"
    /\ UNCHANGED <<run, THREADS, devices, runs, outcome, yielded, failedTxt,
                   critical>>

\* a pool that starts a thread for every submitted run
CanStartAlways(n) == TRUE

\* ThreadPoolExecutor(max_workers=THREADS): a queued run is taken only by
\* one of at most THREADS worker threads, each running one at a time
CanStart(n) == n < THREADS

\* a free worker takes the oldest queued run and starts it
WorkerStart ==
    \E d \in DOMAIN futures :
        /\ futures[d] = "PENDING"
        /\ \A e \in DOMAIN futures : e < d => futures[e] # "PENDING"
        /\ CanStart(Cardinality(Running))
        /\ futures' = [futures EXCEPT ![d] = "RUNNING"]
        /\ runs' = [runs EXCEPT ![d] = @ + 1]
        /\ UNCHANGED <<run, THREADS, devices, mainPc, outcome, yielded,
                       failedTxt, critical>>

\* a device's run ends in one of the ways it can; the worker is free again
RunEnds ==
    \E d \in Running, r \in RunResults :
        /\ outcome' = [outcome EXCEPT ![d] = r]
        /\ failedTxt' = [failedTxt EXCEPT ![d] = @ + FailedLines(r)]
        /\ futures' = [futures EXCEPT ![d] = "FINISHED"]
        /\ UNCHANGED <<run, THREADS, devices, mainPc, runs, yielded, critical>>

\* the as_completed loop without its try/except
CaughtNothing(r) == FALSE

\* except Exception around future.result(): what left run is caught
Caught(r) == r = "Escaped"

\* one iteration of the as_completed loop: a finished future not yet
\* yielded is yielded and future.result() called; an exception that left
\* the run is raised again by it, caught and logged as critical
Collect ==
    /\ mainPc = "as_completed"
    /\ \E d \in DOMAIN futures :
          /\ futures[d] = "FINISHED" /\ yielded[d] = 0
          /\ yielded' = [yielded EXCEPT ![d] = @ + 1]
          /\ IF outcome[d] # "Escaped"
             THEN UNCHANGED <<critical, mainPc>>
             ELSE IF Caught(outcome[d])
             THEN critical' = [critical EXCEPT ![d] = @ + 1] /\ UNCHANGED mainPc
             ELSE mainPc' = "raised" /\ UNCHANGED critical
    /\ UNCHANGED <<run, THREADS, devices, futures, runs, outcome, failedTxt>>

\* the loop left after the first future (a break in its body)
LoopLeftEarly == \E d \in DOMAIN devices : yielded[d] > 0

\* as_completed(futures) is exhausted: every future was yielded
LoopExhausted == \A d \in DOMAIN devices : yielded[d] > 0

\* the loop is over; the with statement shuts the pool down and main returns
MainReturns ==
    /\ mainPc = "as_completed"
    /\ LoopExhausted
    /\ Running = {}
    /\ mainPc' = "done"
    /\ UNCHANGED <<run, THREADS, devices, futures, runs, outcome, yielded,
                   failedTxt, critical>>

NextFleet ==
    \/ Submit
    \/ WorkerStart
    \/ RunEnds
    \/ Collect
    \/ MainReturns

SpecFleet == InitFleet /\ [][NextFleet]_vars

\* the main thread and the worker threads keep being scheduled, and a run
\* that was started ends (the runs are taken to terminate)
FairFleet ==
    /\ WF_vars(Submit) /\ WF_vars(WorkerStart) /\ WF_vars(RunEnds)
    /\ WF_vars(Collect) /\ WF_vars(MainReturns)

SpecFleetFair == SpecFleet /\ FairFleet
(* ================================================================ claims *)
Range(f) == {f[x] : x \in DOMAIN f}
Upto(n) == [m \in 1..n |-> m]

\* C1: if the attempt with driver n raises an authentication failure, no
\* later driver is attempted and the run ends Failed (one FAILED line, one
\* failed-hosts entry) with the authentication reason.
C1_AuthStopsRun ==
    \A n \in 1..Len(attemptExc) :
        attemptExc[n] = "Auth" =>
            /\ n = Len(attemptExc)
            /\ tried = Upto(n)
            /\ pc \in {"report", "done"}
            /\ last_error = [kind |-> "Authentication Failed", detail |-> 0]
            /\ pc = "done" => nFailed = 1 /\ failedHosts = 1

\* drivers [A, B], A raised the authentication error: the run is over and B
\* was never opened
C1_Witness ==
    /\ pc = "done" /\ Len(DRIVERS) = 2
    /\ attemptExc = <<"Auth">> /\ tried = <<1>>
    /\ nFailed = 1

\* C2: with drivers [A, B], if A's attempt raises a timeout and B's attempt
\* connects and completes its batches (SUCCESS is logged for B), the run
\* reports Succeeded via B only, with no FAILED line and no failed-hosts entry.
C2_FallbackSucceeds ==
    (/\ pc = "done" /\ Len(DRIVERS) = 2
     /\ Len(attemptExc) >= 1 /\ attemptExc[1] = "Timeout"
     /\ 2 \in Range(successLog))
    => /\ successLog = <<2>>
       /\ nFailed = 0 /\ failedHosts = 0

\* C3: if every driver attempt ends with a timeout or another scrapli error,
\* each driver was attempted exactly once, in order, and the run ends Failed
\* with the reason of the last attempt.
C3_ExhaustedReportsLast ==
    (/\ pc = "done" /\ Len(DRIVERS) >= 1
     /\ \A n \in 1..Len(attemptExc) : attemptExc[n] \in {"Timeout", "Scrapli"})
    => /\ tried = Upto(Len(DRIVERS))
       /\ Len(attemptExc) = Len(DRIVERS)
       /\ nFailed = 1 /\ failedHosts = 1
       /\ last_error =
            IF attemptExc[Len(DRIVERS)] = "Timeout"
            THEN [kind |-> "Timeout (Check connectivity or Driver/Prompt)", detail |-> 0]
            ELSE [kind |-> "Scrapli Error", detail |-> Len(DRIVERS)]

\* two drivers, a timeout then a scrapli error: the reported reason is the
\* second attempt's
C3_Witness ==
    /\ pc = "done" /\ Len(DRIVERS) = 2
    /\ attemptExc = <<"Timeout", "Scrapli">>
    /\ last_error = [kind |-> "Scrapli Error", detail |-> 2]
    /\ nFailed = 1

\* C4: if the attempt with driver n raises an error that is no scrapli
\* exception, no later driver is attempted and the run ends Failed with that
\* error's reason.
C4_GeneralStopsRun ==
    \A n \in 1..Len(attemptExc) :
        attemptExc[n] = "General" =>
            /\ n = Len(attemptExc)
            /\ tried = Upto(n)
            /\ pc \in {"report", "done"}
            /\ last_error = [kind |-> "General Error", detail |-> n]
            /\ pc = "done" => nFailed = 1 /\ failedHosts = 1

\* drivers [A, B], A's attempt raised a general error: the run is over and B
\* was never opened
C4_Witness ==
    /\ pc = "done" /\ Len(DRIVERS) = 2
    /\ attemptExc = <<"General">> /\ tried = <<1>>
    /\ last_error = [kind |-> "General Error", detail |-> 1]
    /\ nFailed = 1
\* C5: an analyzer name is configured and load_analyzer could not resolve
\* it: a run that completed a primary batch ends as with no analyzer, with
\* SUCCESS reported and no FAILED line or failed-hosts entry.
C5_LoadFailureDegrades ==
    (/\ pc = "done"
     /\ analyze_name # "" /\ analyze_name \notin Installed
     /\ primaryDone)
    => /\ nSuccess >= 1
       /\ nFailed = 0 /\ failedHosts = 0

\* C6: the loaded analyzer raised when called on the primary output: the run
\* still ends with SUCCESS and is not reported Failed.
C6_AnalyzerErrorFailOpen ==
    (/\ pc = "done"
     /\ analyze_name \in Installed
     /\ analyzerErr)
    => /\ nSuccess >= 1
       /\ nFailed = 0 /\ failedHosts = 0

HasSave(t) == \E n \in 1..Len(t) : t[n].phase = "save"
ChangeExecuted(t) ==
    \E n \in 1..Len(t) :
        t[n].phase \in {"primary", "fix"} /\ t[n].ok /\ t[n].call \in Changing
BatchesFinished == pc \in {"success", "save"} \/ (pc = "exit" /\ pending = "none")

\* C7: _save_config is invoked if and only if config_changed (primary batch
\* or fix batch) is true when the batches have finished, and that flag is true
\* exactly when a Configuration or ConfirmInteractive command completed on
\* the session; a run in which no such command completed never saves.
C7_SaveIffChanged ==
    /\ pc = "save" => config_changed
    /\ HasSave(sess) => pc = "exit" /\ pending = "none"
    /\ (pc = "exit" /\ pending = "none") => (HasSave(sess) <=> config_changed)
    /\ BatchesFinished => (config_changed <=> ChangeExecuted(sess))
    /\ nSave > 0 => applied

\* the batches finished with only the fix batch having changed the
\* configuration, and the save was made
C7_Witness ==
    /\ pc = "exit" /\ pending = "none"
    /\ HasSave(sess) /\ config_changed
    /\ \A n \in 1..Len(sess) :
          sess[n].phase = "primary" => sess[n].call \notin Changing
    /\ \E n \in 1..Len(sess) : sess[n].phase = "fix" /\ sess[n].call \in Changing

\* C8: if a Configuration or ConfirmInteractive command completed during the
\* run, _save_config was invoked before the run ended, also when something
\* failed later in the run.
C8_ChangeAlwaysSaved ==
    (pc = "done" /\ applied) => nSave >= 1

\* C9: a run reports exactly one terminal outcome: never more than one
\* SUCCESS or FAILED line in all, and exactly one when it has returned.
C9_OneTerminalOutcome ==
    /\ nSuccess + nFailed <= 1
    /\ pc = "done" => nSuccess + nFailed = 1

\* C10: at most one session is open at any time; none is open when the loop
\* goes on to the next driver, reports, or run has returned; inside the with
\* body the open session is the current driver's.
C10_SessionsReleased ==
    /\ Cardinality(openSess) <= 1
    /\ pc \in {"for", "report", "done"} => openSess = {}
    /\ pc \in {"prepare", "primary", "fix", "success", "save", "exit"}
          => openSess = {i}

\* the first driver's session was opened and used, an error sent the loop on
\* to the second driver, and nothing is open
C10_Witness ==
    /\ pc = "for" /\ i = 2 /\ Len(DRIVERS) = 2
    /\ 1 \in sentCmds
    /\ openSess = {}

PhaseOf(t, ph) == SelectSeq(t, LAMBDA e : e.phase = ph)
AllOk(t) == \A n \in 1..Len(t) : t[n].ok

\* C15: a non-empty analyzer result is executed as a second batch on the
\* session of the primary batch, after every primary command has returned;
\* when it has returned, output is the primary output, then the fix marker,
\* then the fix batch's output, and config_changed is true exactly when a
\* changing command completed in either batch. With analyze_username_test
\* the fix batch is "no username test", asked for by a primary output that
\* contains "username test", and config_changed is true whatever the
\* primary batch did.
C15_FixBatchAppended ==
    /\ pc = "fix" =>
          /\ fix_commands # <<>>
          /\ openSess = {i}
          /\ sess[1] = Ev("open", i, DRIVERS[i], TRUE)
          /\ Len(sess) >= 2 + Len(commands)
          /\ \A n \in 1..Len(commands) :
                sess[n + 2].phase = "primary" /\ sess[n + 2].ok
          /\ \A n \in (3 + Len(commands))..Len(sess) : sess[n].phase = "fix"
    /\ (BatchesFinished /\ fix_commands # <<>>) =>
          LET n == Len(output) - Len(FIX_MARKER) - Len(full_result) IN
          /\ n >= 0
          /\ SubSeq(output, n + 1, Len(output)) = FIX_MARKER \o full_result
          /\ config_changed <=> ChangeExecuted(sess)
          /\ analyze_name = "analyze_username_test" =>
                /\ fix_commands = <<cmdNoUser>>
                /\ Contains(SubSeq(output, 1, n), sUsernameTest)
                /\ config_changed

\* a primary batch of "show run" alone changed nothing, its output made
\* analyze_username_test ask for the fix, and the fix batch has returned
C15_Witness ==
    /\ pc = "success"
    /\ commands = <<cmdShowRun>>
    /\ analyze_name = "analyze_username_test"
    /\ fix_commands = <<cmdNoUser>>
    /\ config_changed
    /\ \E n \in 1..Len(sess) : sess[n].phase = "fix" /\ sess[n].ok

\* the strategy the claim gives each text of ClassifyPool, written out
ExpectedStrategy(cmd) ==
    CASE cmd \in {cmdNoUser, sNoUsername} -> "ConfirmInteractive"
      [] cmd = cmdCopy -> "PromptInteractive"
      [] cmd \in {cmdShowRun, pWr, cmdWrMem, pPing, pTraceroute, pClear} ->
            "PrivilegedReadOnly"
      [] cmd \in {cmdIface, sUsernameTest, cmdNoUs, cmdLeadShow} ->
            "Configuration"
      [] OTHER -> "none"

\* C16: every non-blank command of the list is given exactly one strategy,
\* the one its text has by the prefix tests in their order ("no username",
\* then "copy", then a read-only verb, else Configuration), the same at
\* every position; a blank one is given none; config_changed is true exactly
\* when a ConfirmInteractive or Configuration command was executed.
C16_ClassifyByPrefix ==
    /\ \A n \in 1..Len(sess) :
          /\ sess[n].call = ExpectedStrategy(commands[sess[n].idx])
          /\ sess[n].call \in {"ConfirmInteractive", "PromptInteractive",
                                "PrivilegedReadOnly", "Configuration"}
    /\ \A c \in 1..(k - 1) :
          Cardinality({n \in 1..Len(sess) : sess[n].idx = c})
             = IF commands[c] = cmdBlank THEN 0 ELSE 1
    /\ changed <=>
          \E c \in 1..(k - 1) :
             ExpectedStrategy(commands[c]) \in {"ConfirmInteractive", "Configuration"}
    /\ pc = "returned" => config_changed = changed

\* "write memory" (read-only by its prefix "wr") and then "no user" (no
\* prefix matches: Configuration) were executed and the batch returned
C16_Witness ==
    /\ pc = "returned"
    /\ commands = <<cmdWrMem, cmdNoUs>>
    /\ Len(sess) = 2
    /\ config_changed

\* the last step on the session was the save command, and it raised
SaveFailed ==
    /\ sess # <<>>
    /\ sess[Len(sess)].phase = "save"
    /\ ~sess[Len(sess)].ok

PrepFailed == Len(sess) >= 2 /\ sess[2].phase = "prepare" /\ ~sess[2].ok

\* C18: when _prepare_session has failed, with whatever class of error, run
\* goes on to the primary batch on the same session: right after it the
\* first primary command is next with no exception in flight, the session
\* is still the current driver's, nothing is reported and no further driver
\* is attempted; the next step on that session is the first primary command.
C18_PrepareFailureSwallowed ==
    PrepFailed =>
        /\ Len(sess) = 2 => pc = "primary" /\ k = 1 /\ pending = "none"
        /\ Len(sess) >= 3 => sess[3].phase = "primary" /\ sess[3].idx = 1
        /\ openSess = {i}
        /\ sess[1] = Ev("open", i, DRIVERS[i], TRUE)
        /\ tried[Len(tried)] = i
        /\ Len(attemptExc) = Len(tried) - 1
        /\ nFailed = 0 /\ failedHosts = 0

\* the preparation failed and the whole primary batch then returned on the
\* same session
C18_Witness ==
    /\ PrepFailed
    /\ pc = "success"
    /\ Len(PhaseOf(sess, "primary")) = Len(commands)
    /\ AllOk(PhaseOf(sess, "primary"))

\* the place of a phase in the with body
PhaseRank(ph) ==
    CASE ph = "open" -> 0 [] ph = "prepare" -> 1 [] ph = "primary" -> 2
      [] ph = "fix" -> 3 [] ph = "save" -> 4 [] OTHER -> 5

\* C19: the steps on one session are in the order open, preparation,
\* primary commands, fix commands, save: the preparation is the first step
\* after the open and is made once; the primary commands are sent in list
\* order, each position once; the analyzer is called, and the fix batch
\* sent in list order, only after every primary command returned; the save
\* is made at most once and is the last step; nothing follows a step that
\* raised in a batch.
C19_StepsInOrder ==
    /\ sess # <<>> => sess[1].phase = "open"
    /\ Len(sess) >= 2 => sess[2].phase = "prepare"
    /\ \A a \in 1..(Len(sess) - 1) :
          /\ PhaseRank(sess[a].phase) <= PhaseRank(sess[a + 1].phase)
          /\ sess[a].phase = sess[a + 1].phase => sess[a].idx < sess[a + 1].idx
          /\ sess[a].phase \in {"primary", "fix"} => sess[a].ok
          /\ sess[a].phase # "save"
    /\ \A n \in 3..Len(sess) :
          sess[n].phase = "primary" => sess[n].idx = n - 2
    /\ (pc \in {"fix", "success", "save"}
          \/ (sess # <<>> /\ sess[Len(sess)].phase \in {"fix", "save"})) =>
            /\ primaryDone
            /\ Len(sess) >= 2 + Len(commands)
            /\ \A n \in 1..Len(commands) :
                  /\ sess[n + 2].phase = "primary"
                  /\ sess[n + 2].ok
    /\ pc \in {"primary", "fix", "success", "save"} =>
          Len(sess) >= 2 /\ sess[Len(sess)].phase # "save"

\* one session went through all of it: preparation, two primary commands,
\* a fix command, and the save
C19_Witness ==
    /\ pc = "exit" /\ pending = "none"
    /\ HasSave(sess)
    /\ Len(PhaseOf(sess, "primary")) = 2
    /\ PhaseOf(sess, "fix") # <<>>
    /\ sess[2].phase = "prepare"

\* C20: within one run no command of the primary batch is sent to the
\* device more than once, whatever the drivers and the commands do.
C20_NoPrimaryCommandResent ==
    ~resent

\* C11: with the started runs ending and the threads scheduled, every
\* device's run is started exactly once and its future is yielded to main
\* exactly once, also when there are more devices than workers: never
\* twice, and eventually once for all of them.
C11_EveryDeviceOnce ==
    /\ [](\A d \in DOMAIN devices :
            /\ runs[d] <= 1 /\ yielded[d] <= 1
            /\ outcome[d] # "none" => runs[d] = 1
            /\ yielded[d] = 1 => outcome[d] # "none")
    /\ <>(\A d \in DOMAIN devices :
            runs[d] = 1 /\ outcome[d] # "none" /\ yielded[d] = 1)

\* more devices than workers, main has returned, all were run and yielded
C11_Witness ==
    /\ Len(devices) > THREADS
    /\ mainPc = "done"
    /\ \A d \in DOMAIN devices : runs[d] = 1 /\ yielded[d] = 1

\* C12: at no time are more than THREADS runs active.
C12_AtMostThreadsActive ==
    Cardinality(Running) <= THREADS

\* every worker is busy and a submitted run waits for one
C12_Witness ==
    /\ Len(devices) > THREADS
    /\ Cardinality(Running) = THREADS
    /\ \E d \in DOMAIN futures : futures[d] = "PENDING"

\* C13: an exception that left one device's run never leaves the
\* as_completed loop: it is logged as critical for that host, and from then
\* on main still comes to return with every device run and yielded.
C13_EscapedErrorContained ==
    /\ [](mainPc # "raised")
    /\ [](\A d \in DOMAIN devices :
            (outcome[d] = "Escaped" /\ yielded[d] = 1) => critical[d] = 1)
    /\ (\E d \in DOMAIN devices : outcome[d] = "Escaped")
          ~> (/\ mainPc = "done"
              /\ \A d \in DOMAIN devices : runs[d] = 1 /\ yielded[d] = 1)

\* the first device's run let an exception out and it was logged as
\* critical; main has returned, the last device's run having ended in
\* Success and been yielded
C13_Witness ==
    /\ mainPc = "done"
    /\ Len(devices) >= 2
    /\ outcome[1] = "Escaped" /\ critical[1] = 1
    /\ outcome[Len(devices)] = "Success" /\ yielded[Len(devices)] = 1

\* C14: when main has returned, failed.txt holds exactly one line for every
\* host whose run did not end in Success, a run that let an exception out
\* included, and none for a host whose run ended in Success.
C14_FailedReportExact ==
    mainPc = "done" =>
        \A d \in DOMAIN devices :
            failedTxt[d] = IF outcome[d] = "Success" THEN 0 ELSE 1
====
